---- MODULE Spec2Model ----
(***************************************************************************)
(* Model of src/generate_questions.py: the generate / evaluate / fix loop  *)
(* of QuestionGenerator.generate_questions_for_point and the per-point     *)
(* loop of QuestionGenerator.process_file that drives it and writes the    *)
(* two artifacts of every knowledge point.                                 *)
(*                                                                         *)
(* The three remote calls (client.chat.completions.create) are the inputs  *)
(* of the model: every action that makes one draws the response from a     *)
(* small set with \E and then computes what the Python code computes.      *)
(*                                                                         *)
(* Four specifications share the actions of process_file:                 *)
(*   Spec        one call of process_file on a 三级 input file;            *)
(*   SpecLevels  one call on a file of any of the five levels, with a      *)
(*               content oracle that may return lists of other counts      *)
(*               (SpecLevelsFair adds weak fairness of its steps);         *)
(*   SpecRuns    runs of process_all_resources over two input files, one   *)
(*               of them without a level in its name, with the process     *)
(*               killed at any step and started again;                     *)
(*   SpecCodes   one call on a file of two points, with a content oracle   *)
(*               that puts codes of its own in the questions.              *)
(* Two specifications apply the pure functions to bounded inputs:          *)
(*   SpecReader      detect_file_format and read_knowledge_points on the   *)
(*                   sheets of up to MaxRows rows;                         *)
(*   SpecSerializer  save_questions_to_xls, save_questions_to_docx and     *)
(*                   parse_docx of src/docx_to_xls.py on the batches of up *)
(*                   to MaxQuestions questions.                            *)
(***************************************************************************)
EXTENDS Integers, Sequences, FiniteSets, TLC

(***************************************************************************)
(* Bounds of the model.                                                    *)
(***************************************************************************)
MaxPoints == 2

(***************************************************************************)
(* Program constants.                                                      *)
(***************************************************************************)
max_iterations == 5

(***************************************************************************)
(* Input domains.                                                          *)
(***************************************************************************)
\* The rows a document is made of (columns "编号" and "内容"): each code with
\* a body that has text and with a body that has none (empty for one code,
\* whitespace only for the other).
KnowledgePoint ==
    { [code |-> "A-B-A-001", body |-> <<>>],
      [code |-> "A-B-A-001", body |-> <<" ", "x">>],
      [code |-> "A-B-A-002", body |-> <<" ">>],
      [code |-> "A-B-A-002", body |-> <<" ", "x">>] }

\* str.strip(): drop leading and trailing whitespace.
RECURSIVE lstrip(_)
lstrip(s) == IF s = <<>> THEN <<>>
             ELSE IF Head(s) = " " THEN lstrip(Tail(s)) ELSE s

RECURSIVE rstrip(_)
rstrip(s) == IF s = <<>> THEN <<>>
             ELSE IF s[Len(s)] = " " THEN rstrip(SubSeq(s, 1, Len(s) - 1)) ELSE s

strip(s) == rstrip(lstrip(s))

(***************************************************************************)
(* Batches.  A batch is the Python value bound to `questions`: None, or a  *)
(* list of question dicts.  origin / round tell which oracle call of the   *)
(* session produced the list, size is len(), complete tells whether every  *)
(* record carries the fields 题目类型, 题干 and 答案, counts is the number   *)
(* of questions of each kind (单选, 判断, 多选), code is the value of the   *)
(* field 鉴定点编号 of its questions ("" when there is none).              *)
(***************************************************************************)
Counts(s, j, m) == [single |-> s, judge |-> j, multi |-> m]

Total(c) == c.single + c.judge + c.multi

NoCounts == Counts(0, 0, 0)

\* Lines 82-88; a level is the two characters matched in the file name.
Levels == { <<n, "J">> : n \in {"1", "2", "3", "4", "5"} }

LEVEL_REQUIREMENTS ==
    [l \in Levels |-> IF l[1] \in {"1", "2", "3"} THEN Counts(3, 2, 2) ELSE Counts(4, 2, 0)]

None ==
    [origin |-> "None", round |-> 0, size |-> 0, complete |-> TRUE, counts |-> NoCounts,
     code |-> ""]

EmptyList ==
    [origin |-> "empty", round |-> 0, size |-> 0, complete |-> TRUE, counts |-> NoCounts,
     code |-> ""]

\* Variant that takes None and [] for a batch.
TruthyAlways(b) == TRUE

\* Python truthiness of a batch: `if not questions`.
Truthy(b) == b.size > 0

(***************************************************************************)
(* Responses of the content oracle (generation and fix calls).             *)
(*   exception   the call raised (network, timeout, quota)                 *)
(*   unparseable the content is not JSON                                   *)
(*   notMapping  the JSON value is not an object                           *)
(*   emptyList   the object has no "题目列表" or an empty one              *)
(*   badEntries  "题目列表" holds entries that are not objects             *)
(*   list        "题目列表" is a non-empty list of objects                 *)
(* code is the value the oracle put in the field 鉴定点编号 of the         *)
(* questions it returned ("" when it put none).                            *)
(***************************************************************************)
ContentResponses(countsReturned) ==
    { [kind |-> k, complete |-> TRUE, counts |-> NoCounts, code |-> ""] :
        k \in {"exception", "unparseable", "notMapping", "emptyList", "badEntries"} }
    \cup { [kind |-> "list", complete |-> c, counts |-> n, code |-> ""] :
             c \in BOOLEAN, n \in countsReturned }

\* An oracle that returns the counts asked for 三级 whenever it returns a list.
OracleResponses == ContentResponses({LEVEL_REQUIREMENTS[<<"3", "J">>]})

(***************************************************************************)
(* Responses of the quality oracle.  A parsed JSON object is described by  *)
(* the three keys the orchestrator reads; "absent" is a missing key (the   *)
(* issue list, read with the default [], is "list" when missing).          *)
(*   issues: "list"       a list of objects                                *)
(*           "badEntries" a list whose entries are not objects             *)
(*           "notSized"   a value without len() (null, a number)           *)
(***************************************************************************)
Overalls == {"Excellent", "Good", "NeedsImprovement", "absent"}

Passeds == {"true", "false", "absent"}

IssueShapes == {"list", "badEntries", "notSized"}

Mappings == [shape : {"mapping"}, overall : Overalls, passed : Passeds, issues : IssueShapes]

NotAMapping == [shape |-> "other", overall |-> "absent", passed |-> "absent", issues |-> "list"]

EvalResponses ==
    { [kind |-> "exception", value |-> NotAMapping],
      [kind |-> "unparseable", value |-> NotAMapping],
      [kind |-> "json", value |-> NotAMapping] }
    \cup { [kind |-> "json", value |-> m] : m \in Mappings }

(***************************************************************************)
(* The three oracle adapters, as functions of the oracle's response.       *)
(***************************************************************************)
\* generate_all_questions_at_once reaches the remote call only when the
\* stripped body is non-empty (lines 282-289).
ContentIsEmpty(knowledge_point) == strip(knowledge_point.body) = <<>>

\* Variant without the guard of lines 282-289.
generate_without_body_check(knowledge_point, resp, round) ==
    IF resp.kind = "list"
    THEN [origin |-> "gen", round |-> round, size |-> Total(resp.counts),
          complete |-> resp.complete, counts |-> resp.counts,
          code |-> knowledge_point.code]
    ELSE None

\* Variant without the loop of lines 519-521: the questions keep the code
\* field the oracle gave them.
generate_without_stamp(knowledge_point, resp, round) ==
    IF ContentIsEmpty(knowledge_point) THEN None
    ELSE IF resp.kind = "list"
         THEN [origin |-> "gen", round |-> round, size |-> Total(resp.counts),
               complete |-> resp.complete, counts |-> resp.counts, code |-> resp.code]
         ELSE None

\* Lines 282-289 and 481-538: None for an empty body and for every failure,
\* the list of "题目列表" otherwise.  No field of a question record is read;
\* the field 鉴定点编号 of every question is overwritten (lines 519-521).
generate_all_questions_at_once(knowledge_point, resp, round) ==
    IF ContentIsEmpty(knowledge_point) THEN None
    ELSE IF resp.kind = "list"
         THEN [origin |-> "gen", round |-> round, size |-> Total(resp.counts),
               complete |-> resp.complete, counts |-> resp.counts,
               code |-> knowledge_point.code]
         ELSE None

\* Lines 727-729: the verdict substituted when the call or the parse raises.
DefaultEvaluation ==
    [shape |-> "mapping", overall |-> "absent", passed |-> "true", issues |-> "list"]

\* Variant without the substitution of lines 727-729: an error yields None.
evaluate_questions_none(resp) ==
    IF resp.kind = "json" THEN resp.value ELSE NotAMapping

\* Variant of lines 727-729 whose substituted verdict is an accepting one.
evaluate_questions_accepting(resp) ==
    IF resp.kind = "json"
    THEN resp.value
    ELSE [shape |-> "mapping", overall |-> "Excellent", passed |-> "true", issues |-> "list"]

\* Lines 700-729: whatever json.loads returns, or the default on any error.
evaluate_questions(resp) ==
    IF resp.kind = "json" THEN resp.value ELSE DefaultEvaluation

\* Lines 787-823: None on any error, else the list of "题目列表" (possibly []),
\* with the field 鉴定点编号 of every question overwritten (lines 815-816).
fix_questions(knowledge_point, resp, round) ==
    CASE resp.kind = "list" ->
            [origin |-> "fix", round |-> round, size |-> Total(resp.counts),
             complete |-> resp.complete, counts |-> resp.counts,
             code |-> knowledge_point.code]
      [] resp.kind = "emptyList" -> EmptyList
      [] OTHER -> None

(***************************************************************************)
(* Reading the verdict (lines 865-888).                                    *)
(***************************************************************************)
\* evaluation.get(...) raises AttributeError when evaluation is not a dict.
GetRaises(evaluation) == evaluation.shape # "mapping"

\* is_passed = evaluation.get("是否通过", False), used for its truth value.
is_passed(evaluation) == evaluation.passed = "true"

\* overall = evaluation.get("总体评价", "未知")
overall(evaluation) ==
    IF evaluation.overall = "absent" THEN "Unknown" ELSE evaluation.overall

\* problems = evaluation.get("问题列表", [])
problems(evaluation) == evaluation.issues

\* Variant of line 873 that lets a 良好 verdict through as well.
AcceptedAlsoGood(evaluation) ==
    overall(evaluation) \in {"Excellent", "Good"} /\ is_passed(evaluation)

\* Line 873: only an 优秀 verdict that also passed is accepted.
Accepted(evaluation) == overall(evaluation) = "Excellent" /\ is_passed(evaluation)

\* Lines 879/882 take len(problems); lines 886-887 slice the list and call
\* problem.get on each entry.
ProblemsRaise(evaluation) == problems(evaluation) \in {"notSized", "badEntries"}

\* Variants of line 890: a fix round also in the last iteration, and no fix
\* round in the last two iterations.
BudgetRemainsInclusive(i) == i <= max_iterations

BudgetRemainsShort(i) == i < max_iterations - 1

\* Line 890: a fix round is attempted while iteration < max_iterations.
BudgetRemains(i) == i < max_iterations

(***************************************************************************)
(* Artifact names (process_file lines 1171-1177) and the tracker.          *)
(***************************************************************************)
\* Variant writing the tabular artifact without the 考题 prefix.
XlsNameNoPrefix(code) == <<"", code, ".xls">>

XlsName(code) == <<"KaoTi", code, ".xls">>

DocxName(code) == <<code, ".docx">>

\* Variant of line 1041 that looks for the suffix .xlsx.
get_existing_xlsx_codes(dir) ==
    { f[2] : f \in { g \in dir : Len(g) = 3 /\ g[1] = "KaoTi" /\ g[3] = ".xlsx" } }

\* Lines 1025-1046: the codes of the files named 考题<code>.xls.
get_existing_question_codes(dir) ==
    { f[2] : f \in { g \in dir : Len(g) = 3 /\ g[1] = "KaoTi" /\ g[3] = ".xls" } }

\* Variant of line 1143 that keeps every point.
FilterNone(kps, existing) == kps

\* Line 1143: order-preserving filter of the points that are not done yet.
RECURSIVE FilterNew(_, _)
FilterNew(kps, existing) ==
    IF kps = <<>> THEN <<>>
    ELSE IF Head(kps).code \in existing
         THEN FilterNew(Tail(kps), existing)
         ELSE <<Head(kps)>> \o FilterNew(Tail(kps), existing)

(***************************************************************************)
(* File names are sequences of characters; "1".."5" stand for the numerals *)
(* 一..五 and "J" for 级, any other string for any other character.        *)
(***************************************************************************)
LevelNumerals == {"1", "2", "3", "4", "5"}

\* The value returned when the pattern of line 113 matches nowhere.
NoLevel == <<>>

\* Variant of lines 115-118 that falls back to 三级.
extract_level_or_three(filename) ==
    LET matches == { i \in 1..(Len(filename) - 1) :
                       filename[i] \in LevelNumerals /\ filename[i + 1] = "J" }
    IN  IF matches = {} THEN <<"3", "J">>
        ELSE LET first == CHOOSE i \in matches : \A j \in matches : i <= j
             IN  SubSeq(filename, first, first + 1)

\* Lines 101-118: re.search returns the leftmost match of (一级|...|五级).
extract_level_from_filename(filename) ==
    LET matches == { i \in 1..(Len(filename) - 1) :
                       filename[i] \in LevelNumerals /\ filename[i + 1] = "J" }
    IN  IF matches = {} THEN NoLevel
        ELSE LET first == CHOOSE i \in matches : \A j \in matches : i <= j
             IN  SubSeq(filename, first, first + 1)

\* Lines 1119-1123: the default output directory is named after the input
\* file without its extension; a directory is the path <<d>>, a file in it
\* the path <<d, name>>.
DirTree(d, names) == {<<d>>} \cup { <<d, n>> : n \in names }

\* Line 1040: os.listdir of directory d in file system f.
listdir(f, d) == { p[2] : p \in { q \in f : Len(q) = 2 /\ q[1] = d } }

\* The input file of a single run: 三级a.xlsx.
LevelThreeFile == <<"3", "J", "a">>

\* Documents handed to process_file: the sequence read_knowledge_points returns.
KnowledgePointSeqs == UNION { [1..n -> KnowledgePoint] : n \in 1..MaxPoints }

\* Output directories process_file may find: empty, or the first code done.
InitialDirs == {{}, {XlsName("A-B-A-001"), DocxName("A-B-A-001")}}

(***************************************************************************)
(* State.                                                                  *)
(***************************************************************************)
VARIABLES
    fs,                   \* the paths below the questions directory
    input_filepath,       \* process_file: the name of the input file
    xlsx,                 \* the knowledge points stored in each input file
    level,                \* process_file: local `level`
    run,                  \* number of runs of process_all_resources started
    batch,                \* position of the current or most recent run
    fileIdx,              \* process_all_resources: index of the file of the for loop
    prevRun,              \* how the run before the current one ended
    runCalled,            \* a remote call was made since the current run started
    oraclesOk,            \* since the current run started, every session of a point
                          \* with non-empty body returned a batch
    pf,                   \* position of process_file
    knowledge_points,     \* process_file: the points read from the document
    existing_codes,       \* process_file: the tracker's snapshot
    new_knowledge_points, \* process_file: the points still to generate
    idx,                  \* process_file: index of the point of the for loop
    pc,                   \* position of generate_questions_for_point
    iteration,            \* generate_questions_for_point: local `iteration`
    questions,            \* generate_questions_for_point: local `questions`
    evaluation,           \* generate_questions_for_point: local `evaluation`
    result,               \* value returned by generate_questions_for_point
    genCalls,             \* remote generation calls made by the session
    evalCalls,            \* remote evaluation calls made by the session
    fixCalls,             \* remote fix calls made by the session
    lastCall,             \* the session's most recent remote call
    callArg,              \* batch sent with the most recent evaluation / fix call
    callRound,            \* value of `iteration` at the most recent remote call
    lastBatch,            \* most recent non-empty batch obtained by the session
    onlyGood,             \* so far every generation gave a batch, every verdict was 良好
    honored,              \* so far every generated list had the level's counts
    onlyOutage,           \* so far every generation gave a batch, every evaluation call failed
    evalErrored,          \* the evaluation call of the current iteration raised (line 727)
    servedCodes,          \* process_file: codes whose session returned a non-empty batch
    workbook,             \* reader: the rows of the active sheet of the input document
    file_format,          \* reader: the layout returned by detect_file_format
    second_format,        \* reader: the layout returned by a second call on the same file
    emitted,              \* reader: what read_knowledge_points returned
    rd,                   \* reader: position of the reading sequence
    written,              \* serializer: the batch passed to the two save functions
    xls,                  \* serializer: the cells of the sheet written by save_questions_to_xls
    docx,                 \* serializer: the paragraphs written by save_questions_to_docx
    parsed,               \* serializer: the records parse_docx returns for those paragraphs
    sv                    \* serializer: position of the save / read-back sequence

vars == <<fs, input_filepath, xlsx, level, run, batch, fileIdx, prevRun, runCalled,
          oraclesOk, pf, knowledge_points, existing_codes, new_knowledge_points,
          idx, pc, iteration, questions, evaluation, result,
          genCalls, evalCalls, fixCalls, lastCall, callArg, callRound, lastBatch,
          onlyGood, onlyOutage, honored, evalErrored, servedCodes,
          workbook, file_format, second_format, emitted, rd,
          written, xls, docx, parsed, sv>>

\* The variables of the reader and of the serializers, which the steps of
\* process_file and of the batch run leave alone.
readerVars == <<workbook, file_format, second_format, emitted, rd>>

serializerVars == <<written, xls, docx, parsed, sv>>

toolVars == <<readerVars, serializerVars>>

\* What no step of process_file changes: its argument, the input files and
\* the state of its caller.
callerVars == <<input_filepath, xlsx, run, batch, fileIdx, prevRun, toolVars>>

fileVars == <<fs, level, pf, knowledge_points, existing_codes, new_knowledge_points, idx,
              servedCodes, oraclesOk, callerVars>>

\* Lines 1119-1123: the output directory of the file being processed.
output_dir == input_filepath

\* The names of the files in the output directory.
outputDir == listdir(fs, output_dir)

\* The knowledge point of the running session (kp of the for loop, line 1154).
kp == new_knowledge_points[idx]

\* The locals of process_file and of the session before process_file is called.
InitLocals ==
    /\ level = NoLevel
    /\ knowledge_points = <<>>
    /\ existing_codes = {}
    /\ new_knowledge_points = <<>>
    /\ idx = 0
    /\ pc = "idle"
    /\ iteration = 0
    /\ questions = None
    /\ evaluation = DefaultEvaluation
    /\ result = None
    /\ genCalls = 0
    /\ evalCalls = 0
    /\ fixCalls = 0
    /\ lastCall = "none"
    /\ callArg = None
    /\ callRound = 0
    /\ lastBatch = None
    /\ onlyGood = TRUE
    /\ onlyOutage = TRUE
    /\ honored = TRUE
    /\ evalErrored = FALSE
    /\ servedCodes = {}
    /\ runCalled = FALSE
    /\ oraclesOk = TRUE

\* process_file called on its own (main, lines 1260-1262): no batch run.
NoBatch ==
    /\ run = 0
    /\ batch = "none"
    /\ fileIdx = 0
    /\ prevRun = "none"

\* The reader and the serializers have not been called.
ReaderIdle ==
    /\ workbook = <<>>
    /\ file_format = "none"
    /\ second_format = "none"
    /\ emitted = [raised |-> FALSE, points |-> <<>>]
    /\ rd = "off"

SerializerIdle ==
    /\ written = <<>>
    /\ xls = <<>>
    /\ docx = <<>>
    /\ parsed = <<>>
    /\ sv = "off"

Init ==
    /\ input_filepath = LevelThreeFile
    /\ xlsx \in [{LevelThreeFile} -> KnowledgePointSeqs]
    /\ fs \in { DirTree(LevelThreeFile, names) : names \in InitialDirs }
    /\ pf = "start"
    /\ NoBatch
    /\ ReaderIdle
    /\ SerializerIdle
    /\ InitLocals

sessionUnchanged ==
    UNCHANGED <<pc, iteration, questions, evaluation, result,
                genCalls, evalCalls, fixCalls, lastCall, callArg, callRound, lastBatch,
                onlyGood, onlyOutage, honored, evalErrored, runCalled>>

(***************************************************************************)
(* process_file, lines 1097-1151: return when the file name carries no     *)
(* level; else read the points, make the output directory, take the        *)
(* tracker's snapshot and keep the points that are not done.               *)
(***************************************************************************)
ProcessFileBegin ==
    /\ pf = "start"
    /\ level' = extract_level_from_filename(input_filepath)
    /\ IF extract_level_from_filename(input_filepath) = NoLevel
         THEN /\ pf' = "done"
              /\ UNCHANGED <<fs, knowledge_points, existing_codes, new_knowledge_points,
                             idx, servedCodes>>
         ELSE LET kps == xlsx[input_filepath]
                  made == fs \cup {<<output_dir>>}
                  existing == get_existing_question_codes(listdir(made, output_dir))
              IN  /\ knowledge_points' = kps
                  /\ fs' = made
                  /\ existing_codes' = existing
                  /\ new_knowledge_points' = FilterNew(kps, existing)
                  /\ idx' = 1
                  /\ servedCodes' = {}
                  /\ pf' = IF FilterNew(kps, existing) = <<>> THEN "done" ELSE "next"
    /\ UNCHANGED <<callerVars, oraclesOk>>
    /\ sessionUnchanged

(***************************************************************************)
(* process_file, lines 1154-1160: the for loop takes its next point and    *)
(* calls generate_questions_for_point (lines 838-842).                     *)
(***************************************************************************)
StartSession ==
    /\ pf = "next"
    /\ idx <= Len(new_knowledge_points)
    /\ pf' = "session"
    /\ pc' = "loop"
    /\ iteration' = 0
    /\ questions' = None
    /\ evaluation' = DefaultEvaluation
    /\ result' = None
    /\ genCalls' = 0
    /\ evalCalls' = 0
    /\ fixCalls' = 0
    /\ lastCall' = "none"
    /\ callArg' = None
    /\ callRound' = 0
    /\ lastBatch' = None
    /\ onlyGood' = TRUE
    /\ onlyOutage' = TRUE
    /\ honored' = TRUE
    /\ evalErrored' = FALSE
    /\ UNCHANGED <<callerVars, fs, level, knowledge_points, existing_codes,
                   new_knowledge_points, idx, servedCodes, runCalled, oraclesOk>>

\* The for loop is over (line 1154 has no next item).
ProcessFileEnd ==
    /\ pf = "next"
    /\ idx > Len(new_knowledge_points)
    /\ pf' = "done"
    /\ UNCHANGED <<callerVars, fs, level, knowledge_points, existing_codes,
                   new_knowledge_points, idx, servedCodes, oraclesOk>>
    /\ sessionUnchanged

(***************************************************************************)
(* generate_questions_for_point, lines 844-858: one pass of the while loop *)
(* up to the outcome of the generation call.  `continue` on a falsy result *)
(* goes back to the loop test.                                             *)
(***************************************************************************)
GenerateFrom(responses) ==
    /\ pf = "session"
    /\ pc = "loop"
    /\ iteration < max_iterations
    /\ \E resp \in responses :
         LET i == iteration + 1
             q == generate_all_questions_at_once(kp, resp, i)
             called == ~ContentIsEmpty(kp)
         IN  /\ iteration' = i
             /\ questions' = q
             /\ genCalls' = IF called THEN genCalls + 1 ELSE genCalls
             /\ lastCall' = IF called THEN "generate" ELSE lastCall
             /\ callArg' = IF called THEN None ELSE callArg
             /\ callRound' = IF called THEN i ELSE callRound
             /\ runCalled' = (runCalled \/ called)
             /\ lastBatch' = IF Truthy(q) THEN q ELSE lastBatch
             /\ onlyGood' = (onlyGood /\ q.size > 0)
             /\ onlyOutage' = (onlyOutage /\ q.size > 0)
             /\ honored' = (honored /\ (q.size > 0
                                          => resp.counts = LEVEL_REQUIREMENTS[level]))
             /\ evalErrored' = FALSE
             /\ pc' = IF Truthy(q) THEN "evaluate" ELSE "loop"
    /\ UNCHANGED <<evaluation, result, evalCalls, fixCalls>>
    /\ UNCHANGED fileVars

Generate == GenerateFrom(OracleResponses)

\* Variant of lines 910-912 that returns the last batch the session obtained.
LoopExitLastBatch ==
    /\ pf = "session"
    /\ pc = "loop"
    /\ ~(iteration < max_iterations)
    /\ result' = lastBatch
    /\ pc' = "returned"
    /\ UNCHANGED <<iteration, questions, evaluation, genCalls, evalCalls, fixCalls,
                   lastCall, callArg, callRound, lastBatch, onlyGood, onlyOutage, honored,
                   evalErrored, runCalled>>
    /\ UNCHANGED fileVars

\* Lines 844 and 910-912: the loop test fails, the function returns [].
LoopExit ==
    /\ pf = "session"
    /\ pc = "loop"
    /\ ~(iteration < max_iterations)
    /\ result' = EmptyList
    /\ pc' = "returned"
    /\ UNCHANGED <<iteration, questions, evaluation, genCalls, evalCalls, fixCalls,
                   lastCall, callArg, callRound, lastBatch, onlyGood, onlyOutage, honored,
                   evalErrored, runCalled>>
    /\ UNCHANGED fileVars

(***************************************************************************)
(* Lines 860-908 up to the fix call: the evaluation call, the reading of   *)
(* the verdict and the decision.  The .get calls of lines 865-867 and the  *)
(* reads of the issue list (879/882, 886-887) are outside any try block.   *)
(***************************************************************************)
EvaluateFrom(responses) ==
    /\ pf = "session"
    /\ pc = "evaluate"
    /\ \E resp \in responses :
         LET ev == evaluate_questions(resp)
         IN  /\ evaluation' = ev
             /\ onlyGood' = (onlyGood /\ resp.kind = "json" /\ ev.shape = "mapping"
                                      /\ ev.overall = "Good" /\ ev.issues = "list")
             /\ onlyOutage' = (onlyOutage /\ resp.kind \in {"exception", "unparseable"})
             /\ evalErrored' = (resp.kind \in {"exception", "unparseable"})
             /\ IF GetRaises(ev)
                  THEN pc' = "raised" /\ UNCHANGED result
                ELSE IF Accepted(ev)
                  THEN pc' = "returned" /\ result' = questions
                ELSE IF ProblemsRaise(ev)
                  THEN pc' = "raised" /\ UNCHANGED result
                ELSE IF BudgetRemains(iteration)
                  THEN pc' = "fix" /\ UNCHANGED result
                ELSE pc' = "returned" /\ result' = questions
    /\ evalCalls' = evalCalls + 1
    /\ lastCall' = "evaluate"
    /\ callArg' = questions
    /\ callRound' = iteration
    /\ runCalled' = TRUE
    /\ UNCHANGED <<iteration, questions, genCalls, fixCalls, lastBatch, honored>>
    /\ UNCHANGED fileVars

Evaluate == EvaluateFrom(EvalResponses)

\* Variant of lines 899-902 in which a failed fix gives its slot back, so
\* that the regeneration runs in the same iteration.
FixSameSlot ==
    /\ pf = "session"
    /\ pc = "fix"
    /\ \E resp \in OracleResponses :
         LET fixed_questions == fix_questions(kp, resp, iteration)
         IN  /\ questions' = IF Truthy(fixed_questions) THEN fixed_questions ELSE questions
             /\ lastBatch' = IF Truthy(fixed_questions) THEN fixed_questions ELSE lastBatch
             /\ iteration' = IF Truthy(fixed_questions) THEN iteration ELSE iteration - 1
    /\ fixCalls' = fixCalls + 1
    /\ lastCall' = "fix"
    /\ callArg' = questions
    /\ callRound' = iteration
    /\ pc' = "loop"
    /\ runCalled' = TRUE
    /\ UNCHANGED <<evaluation, result, genCalls, evalCalls, onlyGood, onlyOutage, honored,
                   evalErrored>>
    /\ UNCHANGED fileVars

\* Variant of lines 895-898 in which a fixed batch goes to evaluation next.
FixThenEvaluateFrom(responses) ==
    /\ pf = "session"
    /\ pc = "fix"
    /\ \E resp \in responses :
         LET fixed_questions == fix_questions(kp, resp, iteration)
         IN  /\ questions' = IF Truthy(fixed_questions) THEN fixed_questions ELSE questions
             /\ lastBatch' = IF Truthy(fixed_questions) THEN fixed_questions ELSE lastBatch
             /\ pc' = IF Truthy(fixed_questions) THEN "evaluate" ELSE "loop"
    /\ fixCalls' = fixCalls + 1
    /\ lastCall' = "fix"
    /\ callArg' = questions
    /\ callRound' = iteration
    /\ runCalled' = TRUE
    /\ UNCHANGED <<iteration, evaluation, result, genCalls, evalCalls, onlyGood,
                   onlyOutage, honored, evalErrored>>
    /\ UNCHANGED fileVars

(***************************************************************************)
(* Lines 890-902: the fix call.  A truthy result is bound to `questions`;  *)
(* in both branches control then reaches the loop test of line 844.        *)
(***************************************************************************)
FixFrom(responses) ==
    /\ pf = "session"
    /\ pc = "fix"
    /\ \E resp \in responses :
         LET fixed_questions == fix_questions(kp, resp, iteration)
         IN  /\ questions' = IF Truthy(fixed_questions) THEN fixed_questions ELSE questions
             /\ lastBatch' = IF Truthy(fixed_questions) THEN fixed_questions ELSE lastBatch
    /\ fixCalls' = fixCalls + 1
    /\ lastCall' = "fix"
    /\ callArg' = questions
    /\ callRound' = iteration
    /\ pc' = "loop"
    /\ runCalled' = TRUE
    /\ UNCHANGED <<iteration, evaluation, result, genCalls, evalCalls, onlyGood,
                   onlyOutage, honored, evalErrored>>
    /\ UNCHANGED fileVars

Fix == FixFrom(OracleResponses)

(***************************************************************************)
(* process_file, lines 1160-1178: what the for loop does with the value    *)
(* returned by the session.                                                *)
(***************************************************************************)
sessionKept ==
    UNCHANGED <<iteration, questions, evaluation, result,
                genCalls, evalCalls, fixCalls, lastCall, callArg, callRound, lastBatch,
                onlyGood, onlyOutage, honored, evalErrored, runCalled>>

\* Lines 1162-1165: a falsy batch is skipped, nothing is written.
SkipPoint ==
    /\ pf = "session"
    /\ pc = "returned"
    /\ ~Truthy(result)
    /\ pc' = "idle"
    /\ pf' = "next"
    /\ idx' = idx + 1
    /\ oraclesOk' = (oraclesOk /\ ContentIsEmpty(kp))
    /\ UNCHANGED <<callerVars, fs, level, knowledge_points, existing_codes,
                   new_knowledge_points, servedCodes>>
    /\ sessionKept

\* Lines 1170-1173: the tabular artifact 考题<code>.xls.
SaveXls ==
    /\ pf = "session"
    /\ pc = "returned"
    /\ Truthy(result)
    /\ fs' = fs \cup {<<output_dir, XlsName(kp.code)>>}
    /\ servedCodes' = servedCodes \cup {kp.code}
    /\ pc' = "idle"
    /\ pf' = "save_docx"
    /\ UNCHANGED <<callerVars, level, knowledge_points, existing_codes,
                   new_knowledge_points, idx, oraclesOk>>
    /\ sessionKept

\* Lines 1175-1178: the document artifact <code>.docx, then the next point.
SaveDocx ==
    /\ pf = "save_docx"
    /\ fs' = fs \cup {<<output_dir, DocxName(kp.code)>>}
    /\ pf' = "next"
    /\ idx' = idx + 1
    /\ UNCHANGED <<callerVars, level, knowledge_points, existing_codes,
                   new_knowledge_points, pc, servedCodes, oraclesOk>>
    /\ sessionKept

\* An exception raised inside generate_questions_for_point is not caught by
\* process_file (no try block in lines 1072-1178): it leaves process_file.
Propagate ==
    /\ pf = "session"
    /\ pc = "raised"
    /\ pf' = "aborted"
    /\ oraclesOk' = FALSE
    /\ UNCHANGED <<callerVars, fs, level, knowledge_points, existing_codes,
                   new_knowledge_points, idx, pc, servedCodes>>
    /\ sessionKept

Next ==
    \/ ProcessFileBegin
    \/ StartSession
    \/ ProcessFileEnd
    \/ Generate
    \/ LoopExit
    \/ Evaluate
    \/ Fix
    \/ SkipPoint
    \/ SaveXls
    \/ SaveDocx
    \/ Propagate

Spec == Init /\ [][Next]_vars

(***************************************************************************)
(* Levels and counts: process_file on one input file of any of the five    *)
(* levels, holding one knowledge point, with a content oracle that may     *)
(* return lists of other counts than the level's.                          *)
(***************************************************************************)
LevelFiles == { <<n, "J", "a">> : n \in LevelNumerals }

OnePointDocument == <<[code |-> "A-B-A-001", body |-> <<" ", "x">>]>>

\* Per-kind counts a returned list may have: the two rows of the level
\* table and a list that is one multi-choice question short for 三级.
CountsReturned == {Counts(3, 2, 2), Counts(4, 2, 0), Counts(3, 2, 1)}

AnyCountsResponses == ContentResponses(CountsReturned)

InitLevels ==
    /\ input_filepath \in LevelFiles
    /\ xlsx = [f \in LevelFiles |-> OnePointDocument]
    /\ fs = {}
    /\ pf = "start"
    /\ NoBatch
    /\ ReaderIdle
    /\ SerializerIdle
    /\ InitLocals

GenerateAnyCounts == GenerateFrom(AnyCountsResponses)

FixAnyCounts == FixFrom(AnyCountsResponses)

NextLevels ==
    \/ ProcessFileBegin
    \/ StartSession
    \/ ProcessFileEnd
    \/ GenerateAnyCounts
    \/ LoopExit
    \/ Evaluate
    \/ FixAnyCounts
    \/ SkipPoint
    \/ SaveXls
    \/ SaveDocx
    \/ Propagate

SpecLevels == InitLevels /\ [][NextLevels]_vars

\* The program is sequential and every remote call returns or raises (the
\* client gives up after its timeout): a step that is possible is taken.
SpecLevelsFair == SpecLevels /\ WF_vars(NextLevels)

(***************************************************************************)
(* Batch mode: process_all_resources (lines 1181-1236) calls process_file  *)
(* on every input file in sorted order and catches what it raises.  The    *)
(* program may be killed at any step and run again; the file system is all *)
(* that survives.                                                          *)
(***************************************************************************)
MaxRuns == 2

\* An input file whose name holds 级 and 三 but no level: a级三.xlsx.
NoLevelFile == <<"a", "J", "3">>

\* Line 1222: sorted(xlsx_files); the letter sorts before the numerals.
xlsx_files == <<NoLevelFile, LevelThreeFile>>

\* A content oracle that fails, returns no question, or returns a batch.
FewContentResponses ==
    { r \in OracleResponses : r.complete /\ r.kind \in {"exception", "emptyList", "list"} }

\* A quality oracle that fails, answers with a value that is no object,
\* accepts, or rejects.
FewEvalResponses ==
    { [kind |-> "exception", value |-> NotAMapping],
      [kind |-> "json", value |-> NotAMapping],
      [kind |-> "json", value |-> [shape |-> "mapping", overall |-> "Excellent",
                                   passed |-> "true", issues |-> "list"]],
      [kind |-> "json", value |-> [shape |-> "mapping", overall |-> "Good",
                                   passed |-> "false", issues |-> "list"]] }

InitRuns ==
    /\ input_filepath = <<>>
    /\ xlsx \in { [f \in {NoLevelFile, LevelThreeFile} |->
                     IF f = NoLevelFile THEN OnePointDocument ELSE d] :
                  d \in KnowledgePointSeqs }
    /\ fs = {}
    /\ pf = "done"
    /\ NoBatch
    /\ ReaderIdle
    /\ SerializerIdle
    /\ InitLocals

\* The locals of process_file and of the session at the start of a call.
FreshLocals ==
    /\ level' = NoLevel
    /\ knowledge_points' = <<>>
    /\ existing_codes' = {}
    /\ new_knowledge_points' = <<>>
    /\ idx' = 0
    /\ servedCodes' = {}
    /\ pc' = "idle"
    /\ iteration' = 0
    /\ questions' = None
    /\ evaluation' = DefaultEvaluation
    /\ result' = None
    /\ genCalls' = 0
    /\ evalCalls' = 0
    /\ fixCalls' = 0
    /\ lastCall' = "none"
    /\ callArg' = None
    /\ callRound' = 0
    /\ lastBatch' = None
    /\ onlyGood' = TRUE
    /\ onlyOutage' = TRUE
    /\ honored' = TRUE
    /\ evalErrored' = FALSE

localsUnchanged ==
    UNCHANGED <<level, knowledge_points, existing_codes, new_knowledge_points, idx,
                servedCodes, pc, iteration, questions, evaluation, result,
                genCalls, evalCalls, fixCalls, lastCall, callArg, callRound, lastBatch,
                onlyGood, onlyOutage, honored, evalErrored>>

\* The program is started (lines 1181-1221).
BatchStart ==
    /\ batch \in {"none", "complete", "crashed"}
    /\ run < MaxRuns
    /\ run' = run + 1
    /\ batch' = "loop"
    /\ fileIdx' = 1
    /\ prevRun' = CASE batch = "none" -> "none"
                    [] batch = "crashed" -> "crashed"
                    [] OTHER -> IF oraclesOk THEN "served" ELSE "failed"
    /\ runCalled' = FALSE
    /\ oraclesOk' = TRUE
    /\ UNCHANGED <<fs, input_filepath, xlsx, toolVars, pf>>
    /\ localsUnchanged

\* Lines 1222-1224: the for loop takes its next file and calls process_file.
CallProcessFile ==
    /\ batch = "loop"
    /\ fileIdx <= Len(xlsx_files)
    /\ batch' = "call"
    /\ input_filepath' = xlsx_files[fileIdx]
    /\ pf' = "start"
    /\ FreshLocals
    /\ UNCHANGED <<fs, xlsx, toolVars, run, fileIdx, prevRun, runCalled, oraclesOk>>

\* Lines 1224-1225: process_file returned.
FileReturns ==
    /\ batch = "call"
    /\ pf = "done"
    /\ batch' = "loop"
    /\ fileIdx' = fileIdx + 1
    /\ UNCHANGED <<fs, input_filepath, xlsx, toolVars, pf, run, prevRun, runCalled, oraclesOk>>
    /\ localsUnchanged

\* Lines 1226-1229: process_file raised; the file is given up.
FileRaises ==
    /\ batch = "call"
    /\ pf = "aborted"
    /\ batch' = "loop"
    /\ fileIdx' = fileIdx + 1
    /\ UNCHANGED <<fs, input_filepath, xlsx, toolVars, pf, run, prevRun, runCalled, oraclesOk>>
    /\ localsUnchanged

\* Lines 1231-1236: the for loop is over.
BatchEnd ==
    /\ batch = "loop"
    /\ fileIdx > Len(xlsx_files)
    /\ batch' = "complete"
    /\ UNCHANGED <<fs, input_filepath, xlsx, toolVars, pf, run, fileIdx, prevRun, runCalled,
                   oraclesOk>>
    /\ localsUnchanged

\* The process is killed: its memory is lost, the files stay.
Crash ==
    /\ batch \in {"loop", "call"}
    /\ batch' = "crashed"
    /\ pf' = "crashed"
    /\ FreshLocals
    /\ UNCHANGED <<fs, input_filepath, xlsx, toolVars, run, fileIdx, prevRun, runCalled, oraclesOk>>

GenerateFew == GenerateFrom(FewContentResponses)

EvaluateFew == EvaluateFrom(FewEvalResponses)

FixFew == FixFrom(FewContentResponses)

NextRuns ==
    \/ BatchStart
    \/ CallProcessFile
    \/ ProcessFileBegin
    \/ StartSession
    \/ ProcessFileEnd
    \/ GenerateFew
    \/ LoopExit
    \/ EvaluateFew
    \/ FixFew
    \/ SkipPoint
    \/ SaveXls
    \/ SaveDocx
    \/ Propagate
    \/ FileReturns
    \/ FileRaises
    \/ BatchEnd
    \/ Crash

SpecRuns == InitRuns /\ [][NextRuns]_vars

TypeOK ==
    /\ pf \in {"start", "next", "session", "save_docx", "done", "aborted", "crashed"}
    /\ batch \in {"none", "loop", "call", "complete", "crashed"}
    /\ prevRun \in {"none", "served", "failed", "crashed"}
    /\ run \in Nat
    /\ fileIdx \in Nat
    /\ runCalled \in BOOLEAN
    /\ oraclesOk \in BOOLEAN
    /\ pc \in {"idle", "loop", "evaluate", "fix", "returned", "raised"}
    /\ iteration \in 0..max_iterations
    /\ genCalls \in 0..max_iterations
    /\ evalCalls \in 0..max_iterations
    /\ fixCalls \in 0..max_iterations

(***************************************************************************)
(* Properties of the orchestration loop.  They are stated on the state     *)
(* variables and on the fields of the verdict, not through the operators   *)
(* that model the code's tests.                                            *)
(***************************************************************************)
\* The verdict in `evaluation` satisfies the acceptance predicate of the
\* specification: overall = Excellent and passed = true.
VerdictIsExcellentAndPassed ==
    /\ evaluation.shape = "mapping"
    /\ evaluation.overall = "Excellent"
    /\ evaluation.passed = "true"

\* C1: a session that returns in an iteration k < 5 does so right after the
\* evaluation of iteration k, and the verdict of that evaluation is Excellent
\* with passed = true; no Good, NeedsImprovement, not-passed or overall-less
\* verdict is followed by a return before the 5th iteration.
C1_EarlyReturnOnlyOnExcellent ==
    (pc = "returned" /\ iteration < 5)
        => /\ lastCall = "evaluate"
           /\ callRound = iteration
           /\ VerdictIsExcellentAndPassed
           /\ result = callArg

C1_Witness ==
    /\ pc = "returned"
    /\ iteration = 3
    /\ evalCalls = 3
    /\ VerdictIsExcellentAndPassed

\* C2: after a fix call that returned a non-empty batch, the session's next
\* remote call is an evaluation call whose argument is that fixed batch (no
\* generation call comes first).
C2_FixedBatchIsEvaluatedNext ==
    [][ (pf = "session" /\ pc = "loop" /\ lastCall = "fix" /\ questions.origin = "fix")
            => \/ lastCall' = "fix" /\ genCalls' = genCalls /\ evalCalls' = evalCalls
               \/ lastCall' = "evaluate" /\ callArg' = questions /\ genCalls' = genCalls
      ]_vars

\* C3: a session that returns with its budget used up (iteration 5) returns
\* the most recent non-empty batch it obtained, if it obtained one.
C3_ExhaustedReturnsLastBatch ==
    (pc = "returned" /\ iteration = 5 /\ lastBatch.size > 0) => result = lastBatch

\* C4: while the session of a knowledge point whose stripped body is empty
\* runs, no generation, evaluation or fix call has been made, the value it
\* returns is empty, and no step of that point's processing adds a file to the
\* output directory.
C4_EmptyBodyNoCallsNoArtifact ==
    /\ [] ( (pf = "session" /\ strip(new_knowledge_points[idx].body) = <<>>)
              => /\ genCalls = 0 /\ evalCalls = 0 /\ fixCalls = 0
                 /\ lastCall = "none"
                 /\ pc \in {"loop", "returned"}
                 /\ (pc = "returned" => result.size = 0) )
    /\ [][ (pf = "session" /\ strip(new_knowledge_points[idx].body) = <<>>)
              => (outputDir' = outputDir /\ pf' \in {"session", "next"}) ]_vars

C4_Witness ==
    /\ pf = "session"
    /\ strip(new_knowledge_points[idx].body) = <<>>
    /\ new_knowledge_points[idx].body # <<>>
    /\ pc = "returned"
    /\ iteration = 5
    /\ genCalls = 0

\* C5: whatever the three oracles answer, the session never ends by raising.
C5_NeverRaises == pc # "raised"

\* C6: a generation call that yields no batch uses up exactly one iteration and
\* is followed by no evaluation or fix call; the step after it is the
\* generation call of the next iteration or, when that was the 5th iteration,
\* the return of the empty batch.
C6_FailedGenerationRetries ==
    /\ [][ (pf = "session" /\ genCalls' = genCalls + 1 /\ questions'.size = 0)
              => /\ iteration' = iteration + 1
                 /\ pc' = "loop"
                 /\ evalCalls' = evalCalls /\ fixCalls' = fixCalls ]_vars
    /\ [][ (pf = "session" /\ pc = "loop" /\ lastCall = "generate" /\ questions.size = 0)
              => \/ /\ iteration < 5
                    /\ genCalls' = genCalls + 1
                    /\ lastCall' = "generate"
                    /\ callRound' = iteration + 1
                    /\ evalCalls' = evalCalls /\ fixCalls' = fixCalls
                 \/ /\ iteration = 5
                    /\ pc' = "returned"
                    /\ result'.size = 0
                    /\ genCalls' = genCalls /\ evalCalls' = evalCalls
                    /\ fixCalls' = fixCalls ]_vars
    /\ [] ( (pc = "returned" /\ genCalls = 5 /\ evalCalls = 0) => result.size = 0 )

C6_Witness ==
    /\ pc = "returned"
    /\ genCalls = 5
    /\ evalCalls = 0
    /\ fixCalls = 0
    /\ result.size = 0

\* C7: a generated batch with a question record that lacks 题目类型, 题干 or
\* 答案 is never sent to the evaluator, never returned and never serialized.
C7_IncompleteBatchRejected ==
    /\ (lastCall = "evaluate" => callArg.complete)
    /\ (pc = "returned" => result.complete)
    /\ (pf = "save_docx" => result.complete)

\* The state right after a failed fix call: the loop test is next and
\* `questions` is still the generated batch.
AfterFailedFix ==
    /\ pf = "session"
    /\ pc = "loop"
    /\ lastCall = "fix"
    /\ questions.origin = "gen"

\* C8 as stated: after a failed fix call in iteration k the regeneration is
\* made in the same slot k.
C8_RegenerationInSameSlot ==
    [][ AfterFailedFix => (lastCall' = "generate" => callRound' = callRound) ]_vars

\* C8, amended: after a failed fix call in iteration k (k < 5) the fix is
\* discarded and the next step is a generation call made in slot k + 1.
C8_RegenerationInNextSlot ==
    [][ AfterFailedFix
          => /\ callRound < 5
             /\ lastCall' = "generate"
             /\ callRound' = callRound + 1
             /\ iteration' = callRound + 1
             /\ genCalls' = genCalls + 1
             /\ questions'.origin # "fix" ]_vars

C8_Witness ==
    /\ AfterFailedFix
    /\ iteration = 2
    /\ fixCalls = 2
    /\ genCalls = 2

\* C9: after an evaluation whose verdict (a mapping with a list of issue
\* records, keys possibly missing, or the default verdict of a failed call) is
\* not Excellent-and-passed, the session goes to the fix call when the
\* iteration is below 5 and returns without a fix call when it is 5; the fix
\* call is made with the batch just evaluated and that verdict.
C9_NotAcceptedThenFixOrExhausted ==
    /\ [][ ( /\ pf = "session"
             /\ evalCalls' = evalCalls + 1
             /\ evaluation'.shape = "mapping"
             /\ evaluation'.issues = "list"
             /\ ~(evaluation'.overall = "Excellent" /\ evaluation'.passed = "true") )
              => IF iteration < 5
                 THEN pc' = "fix" /\ callArg' = questions' /\ questions' = questions
                 ELSE pc' = "returned" /\ fixCalls' = fixCalls /\ result' = questions ]_vars
    /\ [][ (pf = "session" /\ pc = "fix")
              => /\ lastCall' = "fix"
                 /\ fixCalls' = fixCalls + 1
                 /\ callArg' = callArg
                 /\ callArg' = questions
                 /\ evaluation' = evaluation
                 /\ callRound' = callRound ]_vars
    /\ [] ( (pc = "returned" /\ evaluation.overall = "Good" /\ lastCall = "evaluate")
              => iteration = 5 )

C9_Witness ==
    /\ pc = "loop"
    /\ lastCall = "fix"
    /\ callRound = 4
    /\ evaluation.overall = "Good"
    /\ evaluation.passed = "true"
    /\ callArg.origin = "gen"
    /\ callArg.round = 4

C15_TrackerReportsEverySession ==
    (pf = "done" /\ existing_codes = {})
      => get_existing_question_codes(outputDir)
           = { new_knowledge_points[i].code : i \in 1..Len(new_knowledge_points) }

(***************************************************************************)
(* C15 (amended): after a full run on an initially empty output directory  *)
(* the tracker returns exactly the codes whose session returned a          *)
(* non-empty batch; a code whose session returned nothing is not reported. *)
(***************************************************************************)
C15_TrackerReportsServedCodes ==
    (pf = "done" /\ existing_codes = {})
      => /\ get_existing_question_codes(outputDir) = servedCodes
         /\ servedCodes \subseteq
               { new_knowledge_points[i].code : i \in 1..Len(new_knowledge_points) }

C15_Witness ==
    /\ pf = "done"
    /\ existing_codes = {}
    /\ Len(new_knowledge_points) = 2
    /\ new_knowledge_points[1].code = "A-B-A-001"
    /\ servedCodes = {"A-B-A-002"}
    /\ get_existing_question_codes(outputDir) = {"A-B-A-002"}

(***************************************************************************)
(* C16: process_file does nothing for a code the tracker reported at the   *)
(* start: no session is opened and no artifact is written for it, no file  *)
(* is ever removed, and the points advanced are exactly those of the       *)
(* document whose code is not in the tracker's set, in document order.     *)
(***************************************************************************)
C16_DoneCodesAreSkipped ==
    /\ [](pf \in {"session", "save_docx"}
            => new_knowledge_points[idx].code \notin existing_codes)
    /\ [](pf \notin {"start"}
            => /\ \A i \in 1..Len(new_knowledge_points) :
                    /\ new_knowledge_points[i].code \notin existing_codes
                    /\ \E j \in 1..Len(knowledge_points) :
                          knowledge_points[j] = new_knowledge_points[i]
               /\ \A j \in 1..Len(knowledge_points) :
                    knowledge_points[j].code \notin existing_codes
                      => \E i \in 1..Len(new_knowledge_points) :
                           new_knowledge_points[i] = knowledge_points[j])
    /\ [][outputDir \subseteq outputDir']_vars
    /\ [][\A f \in outputDir' \ outputDir :
              \A c \in existing_codes : f # <<"KaoTi", c, ".xls">> /\ f # <<c, ".docx">>]_vars

C16_Witness ==
    /\ pf = "done"
    /\ existing_codes = {"A-B-A-001"}
    /\ Len(knowledge_points) = 2
    /\ knowledge_points[1].code = "A-B-A-001"
    /\ Len(new_knowledge_points) = 1
    /\ idx = 2
    /\ genCalls > 0

(***************************************************************************)
(* C18 (as stated): a failure in one knowledge point never aborts the      *)
(* batch, so process_file stops only after the last pending point had its  *)
(* session.                                                                *)
(***************************************************************************)
C18_LaterPointsStillGetSessions ==
    pf \in {"done", "aborted"} => idx >= Len(new_knowledge_points)

(***************************************************************************)
(* C20 (as stated): a session that used all five rounds without an         *)
(* accepting verdict, after at least one round produced a batch, still has *)
(* both artifacts written by process_file.                                 *)
(***************************************************************************)
C20_ExhaustedSessionHasArtifacts ==
    ( /\ pf \in {"next", "done"}
      /\ idx > 1
      /\ iteration = 5
      /\ lastBatch.size > 0
      /\ ~(lastCall = "evaluate" /\ VerdictIsExcellentAndPassed) )
      => /\ <<"KaoTi", new_knowledge_points[idx - 1].code, ".xls">> \in outputDir
         /\ <<new_knowledge_points[idx - 1].code, ".docx">> \in outputDir

(***************************************************************************)
(* C12: when every list the generation oracle returned in the session has  *)
(* the counts of the level (3 single-choice, 2 true-false, 2 multi-choice  *)
(* for 一级..三级; 4, 2, 0 for 四级, 五级), a batch returned for a point   *)
(* with non-empty body has exactly those counts, whatever the evaluator    *)
(* and the fix oracle returned; for 三级 and acceptance in iteration 1 it  *)
(* has exactly 7 questions.                                                *)
(***************************************************************************)
C12_ReturnedBatchHasLevelCounts ==
    (pf = "session" /\ pc = "returned" /\ honored /\ result.size > 0)
      => /\ level[1] \in {"1", "2", "3"}
               => result.counts = [single |-> 3, judge |-> 2, multi |-> 2]
         /\ level[1] \in {"4", "5"}
               => result.counts = [single |-> 4, judge |-> 2, multi |-> 0]
         /\ result.size = result.counts.single + result.counts.judge + result.counts.multi
         /\ (level = <<"3", "J">> /\ iteration = 1) => result.size = 7

C12_Witness ==
    /\ pf = "session"
    /\ pc = "returned"
    /\ honored
    /\ level = <<"3", "J">>
    /\ iteration = 1
    /\ evaluation.overall = "Excellent"
    /\ evaluation.passed = "true"
    /\ result.size = 7
    /\ result.counts = [single |-> 3, judge |-> 2, multi |-> 2]

(***************************************************************************)
(* C13 (as stated): a batch returned on an Excellent-and-passed verdict    *)
(* has the size and the per-kind counts of the level's row of the          *)
(* requirement table.                                                      *)
(***************************************************************************)
C13_AcceptedBatchMatchesLevelTable ==
    (pf = "session" /\ pc = "returned" /\ lastCall = "evaluate"
       /\ VerdictIsExcellentAndPassed)
      => /\ result.counts = LEVEL_REQUIREMENTS[level]
         /\ result.size = Total(LEVEL_REQUIREMENTS[level])

(***************************************************************************)
(* C14 (as stated): a second complete run on the same input files and      *)
(* output directories makes no oracle call, however the first run went.    *)
(***************************************************************************)
C14_SecondRunMakesNoCall ==
    (run = 2 /\ prevRun \in {"served", "failed"}) => ~runCalled

(***************************************************************************)
(* C14 (amended): a run that follows a complete run in which every session *)
(* of a point with non-empty body returned a batch makes no oracle call;   *)
(* in any run, oracle calls are made only for codes that had no tabular    *)
(* artifact when process_file took the tracker's snapshot.                 *)
(***************************************************************************)
C14_RunAfterServedRunMakesNoCall ==
    /\ (run >= 2 /\ prevRun = "served") => ~runCalled
    /\ (pf = "session" /\ genCalls + evalCalls + fixCalls > 0)
          => /\ new_knowledge_points[idx].code \notin existing_codes
             /\ run >= 2 => prevRun # "served"

C14_Witness ==
    /\ run = 2
    /\ batch = "complete"
    /\ prevRun = "served"
    /\ ~runCalled
    /\ <<LevelThreeFile, <<"KaoTi", "A-B-A-001", ".xls">>>> \in fs
    /\ <<LevelThreeFile, <<"KaoTi", "A-B-A-002", ".xls">>>> \in fs

(***************************************************************************)
(* C17 (as stated): when a run was killed at some step and the next run    *)
(* completes with every oracle call succeeding, every knowledge point with *)
(* non-empty body has both artifacts and no code has only one of the two.  *)
(***************************************************************************)
C17_RerunAfterCrashCompletesArtifacts ==
    (batch = "complete" /\ prevRun = "crashed" /\ oraclesOk)
      => /\ \A i \in 1..Len(xlsx[LevelThreeFile]) :
              strip(xlsx[LevelThreeFile][i].body) # <<>>
                => /\ <<LevelThreeFile, XlsName(xlsx[LevelThreeFile][i].code)>> \in fs
                   /\ <<LevelThreeFile, DocxName(xlsx[LevelThreeFile][i].code)>> \in fs
         /\ \A c \in {"A-B-A-001", "A-B-A-002"} :
              <<LevelThreeFile, XlsName(c)>> \in fs
                <=> <<LevelThreeFile, DocxName(c)>> \in fs

(***************************************************************************)
(* C19: for an input file whose name holds no level token process_file     *)
(* returns at once: no knowledge point is read, no oracle call is made, no *)
(* directory and no artifact is created for it; the batch run goes on with *)
(* the next file, whose output directory exists when the run completes.    *)
(***************************************************************************)
C19_FileWithoutLevelIsSkipped ==
    /\ []((batch = "call" /\ input_filepath = NoLevelFile /\ pf # "start")
            => /\ pf = "done"
               /\ knowledge_points = <<>>
               /\ genCalls = 0 /\ evalCalls = 0 /\ fixCalls = 0)
    /\ [](\A p \in fs : p[1] # NoLevelFile)
    /\ [][(batch = "call" /\ input_filepath = NoLevelFile)
            => (fs' = fs /\ runCalled' = runCalled)]_vars
    /\ [][(batch = "call" /\ input_filepath = NoLevelFile /\ pf = "done")
            => \/ batch' = "crashed"
               \/ batch' = "loop" /\ fileIdx' = fileIdx + 1]_vars
    /\ [](batch = "complete" => (fileIdx = 3 /\ <<LevelThreeFile>> \in fs))

C19_Witness ==
    /\ batch = "complete"
    /\ run = 1
    /\ runCalled
    /\ <<LevelThreeFile>> \in fs
    /\ <<LevelThreeFile, <<"KaoTi", "A-B-A-001", ".xls">>>> \in fs
    /\ \A p \in fs : p[1] # NoLevelFile

(***************************************************************************)
(* C26: every session terminates whatever the oracles return, after at     *)
(* most 5 generation calls, 5 evaluation calls and 4 fix calls; at every   *)
(* oracle call the iteration counter is in 1..5; an evaluation call is     *)
(* made only on a non-empty batch, a fix call only after an evaluation     *)
(* whose verdict is not accepting and in an iteration below 5.             *)
(***************************************************************************)
C26_SessionTerminatesWithinBudget ==
    /\ [](genCalls <= 5 /\ evalCalls <= 5 /\ fixCalls <= 4)
    /\ [][(genCalls' = genCalls + 1 \/ evalCalls' = evalCalls + 1
                                    \/ fixCalls' = fixCalls + 1)
            => (callRound' \in 1..5 /\ callRound' = iteration')]_vars
    /\ [][evalCalls' = evalCalls + 1
            => (questions.size > 0 /\ callArg' = questions)]_vars
    /\ [][fixCalls' = fixCalls + 1
            => /\ lastCall = "evaluate"
               /\ callRound = iteration
               /\ iteration < 5
               /\ ~VerdictIsExcellentAndPassed]_vars
    /\ ((pf = "session") ~> (pf # "session"))

C26_Witness ==
    /\ pf = "session"
    /\ pc = "returned"
    /\ genCalls = 5
    /\ evalCalls = 5
    /\ fixCalls = 4

(***************************************************************************)
(* C28: no batch is returned unevaluated: a non-empty batch returned by a  *)
(* session is the batch that was sent with the session's most recent       *)
(* evaluation call, which is the session's most recent oracle call and was *)
(* made in the iteration of the return.                                    *)
(***************************************************************************)
C28_ReturnedBatchWasJustEvaluated ==
    (pf = "session" /\ pc = "returned" /\ result.size > 0)
        => /\ lastCall = "evaluate"
           /\ callArg = result
           /\ callRound = iteration
           /\ questions = result

C28_Witness ==
    /\ pf = "session"
    /\ pc = "returned"
    /\ result.size > 0
    /\ result.origin = "gen"
    /\ iteration = 3
    /\ fixCalls = 2
    /\ lastCall = "evaluate"

(***************************************************************************)
(* C29: an error of the quality oracle never causes acceptance: when the   *)
(* evaluation call of an iteration k < 5 raises, the session does not      *)
(* return in iteration k and its next step is a fix call; a batch whose    *)
(* evaluation call raised is returned only in iteration 5.                 *)
(***************************************************************************)
C29_EvaluatorErrorNeverAccepts ==
    /\ [][(evalCalls' = evalCalls + 1 /\ evalErrored' /\ iteration < 5)
            => (pc' = "fix" /\ result' = result /\ result'.size = 0)]_vars
    /\ [][(pc = "fix" /\ evalErrored)
            => (fixCalls' = fixCalls + 1 /\ lastCall' = "fix"
                /\ callArg' = questions /\ iteration' = iteration)]_vars
    /\ []((pc = "returned" /\ evalErrored /\ lastCall = "evaluate") => iteration = 5)

C29_Witness ==
    /\ pf = "session"
    /\ pc = "fix"
    /\ evalErrored
    /\ iteration = 2
    /\ evalCalls = 2
    /\ fixCalls = 1
    /\ evaluation.passed = "true"

(***************************************************************************)
(* Codes: process_file on one input file holding two knowledge points,     *)
(* with a content oracle whose questions carry no code field, the code of  *)
(* the first point or the code of the second point.                        *)
(***************************************************************************)
TwoPointDocument ==
    <<[code |-> "A-B-A-001", body |-> <<" ", "x">>],
      [code |-> "A-B-A-002", body |-> <<" ", "x">>]>>

CodesReturned == {"", "A-B-A-001", "A-B-A-002"}

CodedResponses == { [r EXCEPT !.code = c] : r \in FewContentResponses, c \in CodesReturned }

InitCodes ==
    /\ input_filepath = LevelThreeFile
    /\ xlsx = [f \in {LevelThreeFile} |-> TwoPointDocument]
    /\ fs = {}
    /\ pf = "start"
    /\ NoBatch
    /\ ReaderIdle
    /\ SerializerIdle
    /\ InitLocals

GenerateCoded == GenerateFrom(CodedResponses)

FixCoded == FixFrom(CodedResponses)

NextCodes ==
    \/ ProcessFileBegin
    \/ StartSession
    \/ ProcessFileEnd
    \/ GenerateCoded
    \/ LoopExit
    \/ EvaluateFew
    \/ FixCoded
    \/ SkipPoint
    \/ SaveXls
    \/ SaveDocx
    \/ Propagate

SpecCodes == InitCodes /\ [][NextCodes]_vars

(***************************************************************************)
(* C30: the questions of every batch a session returns carry the code of   *)
(* the session's knowledge point, whatever code the oracles gave them; the *)
(* tabular artifact written for the batch is named 考题<code>.xls for that  *)
(* same code, and the tracker recovers exactly that code from the name.    *)
(***************************************************************************)
C30_ReturnedBatchCarriesPointCode ==
    /\ []((pf = "session" /\ pc = "returned" /\ result.size > 0)
            => result.code = new_knowledge_points[idx].code)
    /\ [][(pf = "session" /\ pf' = "save_docx")
            => /\ fs' = fs \cup {<<input_filepath, <<"KaoTi", result.code, ".xls">>>>}
               /\ result.code \in get_existing_question_codes(listdir(fs', input_filepath))
               /\ get_existing_question_codes(listdir(fs', input_filepath))
                    = get_existing_question_codes(listdir(fs, input_filepath))
                        \cup {result.code}]_vars

C30_Witness ==
    /\ pf = "save_docx"
    /\ idx = 2
    /\ result.size > 0
    /\ result.code = "A-B-A-002"
    /\ get_existing_question_codes(listdir(fs, input_filepath)) = {"A-B-A-001", "A-B-A-002"}

(***************************************************************************)
(* The reader: detect_file_format (lines 120-171) and                      *)
(* read_knowledge_points (lines 173-267) on the active sheet of a          *)
(* document.  A cell is None or a text, a text is a sequence of            *)
(* characters.  The Chinese characters of the keywords are written in      *)
(* pinyin, "EM" is the em dash, "FW" the full-width hyphen.                *)
(***************************************************************************)
MaxRows == 3

NoneCell == [isNone |-> TRUE, text |-> <<>>]

Text(t) == [isNone |-> FALSE, text |-> t]

\* Python truth value of a cell: None and "" are falsy.
CellTruthy(cell) == ~cell.isNone /\ cell.text # <<>>

\* str(cell)
str(cell) == IF cell.isNone THEN <<"N", "o", "n", "e">> ELSE cell.text

\* `needle in haystack` on strings.
Contains(haystack, needle) ==
    \E i \in 1..(Len(haystack) - Len(needle) + 1) :
        SubSeq(haystack, i, i + Len(needle) - 1) = needle

\* ' '.join(parts)
RECURSIVE join(_)
join(parts) ==
    IF parts = <<>> THEN <<>>
    ELSE IF Len(parts) = 1 THEN parts[1]
    ELSE parts[1] \o <<" ">> \o join(Tail(parts))

Digits == {"0", "1", "2", "3", "4", "5", "6", "7", "8", "9"}

\* str.isdigit()
isdigit(s) == s # <<>> /\ \A i \in 1..Len(s) : s[i] \in Digits

\* Lines 132, 139, 143: the keywords of the detection.
RegionMarker == <<"jian", "ding", "fan", "wei">>

SequenceNumber == <<"ti", "mu", "xu", "hao">>

DetectKeywords == {SequenceNumber, <<"jian", "ding", "dian">>, <<"zi", "liao">>}

\* Lines 221, 249: the keywords of a header row that is met among the data.
HeaderKeywords == {SequenceNumber, <<"jian", "ding", "dian">>, <<"xu", "hao">>}

\* code.replace('—', '-').replace('－', '-')
normalise(code) ==
    [i \in 1..Len(code) |-> IF code[i] \in {"EM", "FW"} THEN "-" ELSE code[i]]

\* ws.max_column: the width of the widest stored row (1 for an empty sheet).
max_column(ws) ==
    LET widths == {1} \cup { Len(ws[r]) : r \in 1..Len(ws) }
    IN  CHOOSE w \in widths : \A v \in widths : v <= w

\* A row of iter_rows(values_only=True): the stored cells, None elsewhere.
RowValues(ws, r) ==
    [c \in 1..max_column(ws) |->
        IF r <= Len(ws) /\ c <= Len(ws[r]) THEN ws[r][c] ELSE NoneCell]

\* list(ws.iter_rows(min_row, max_row, values_only=True)): every row of the
\* range, stored or not.
iter_rows(ws, min_row, max_row) ==
    [k \in 1..(IF max_row >= min_row THEN max_row - min_row + 1 ELSE 0) |->
        RowValues(ws, min_row + k - 1)]

\* Lines 129 and 147: the row as one string, '' for a falsy cell.
row_str(row) == join([c \in 1..Len(row) |-> IF CellTruthy(row[c]) THEN str(row[c]) ELSE <<>>])

\* Variant that tests the header keywords before the region marker.
detect_headers_first(ws) ==
    LET rows == iter_rows(ws, 1, 3)
        row1 == rows[1]
    IN  IF \E k \in DetectKeywords : Contains(row_str(row1), k) THEN "format2"
        ELSE IF /\ Contains(row_str(row1), RegionMarker)
                /\ Len(row1) > 5
                /\ Contains(IF CellTruthy(row1[6]) THEN str(row1[6]) ELSE <<>>, SequenceNumber)
             THEN "format3"
        ELSE IF \E k \in DetectKeywords : Contains(row_str(rows[2]), k) THEN "format2"
        ELSE "format1"

\* Lines 120-171.  The sheet is read, never written.
detect_file_format(ws) ==
    LET rows == iter_rows(ws, 1, 3)
        row1 == rows[1]
        row1_str == row_str(row1)
    IN  IF /\ Contains(row1_str, RegionMarker)
           /\ Len(row1) > 5
           /\ Contains(IF CellTruthy(row1[6]) THEN str(row1[6]) ELSE <<>>, SequenceNumber)
        THEN "format3"
        ELSE IF \E keyword \in DetectKeywords : Contains(row1_str, keyword)
        THEN "format2"
        ELSE IF /\ Len(rows) >= 2
                /\ \E keyword \in DetectKeywords : Contains(row_str(rows[2]), keyword)
        THEN "format2"
        ELSE IF Len(rows) >= 1 /\ CellTruthy(rows[1][1])
        THEN (IF isdigit(str(rows[1][1])) THEN "format1" ELSE "format1")
        ELSE "format1"

\* The text of a cell read with `str(x) if x else ""`.
TextOrEmpty(cell) == IF CellTruthy(cell) THEN str(cell) ELSE <<>>

\* Lines 193-207: the point of a row of layout 1, with the row it comes from.
Point1(row, r) ==
    [row |-> r, seq |-> TextOrEmpty(row[1]), code |-> normalise(TextOrEmpty(row[2])),
     name |-> TextOrEmpty(row[3]), content |-> TextOrEmpty(row[4])]

\* Lines 212-231: layout 2 keeps a row whose first cell passes the tests.
Keeps2(row) ==
    /\ ~row[1].isNone
    /\ strip(str(row[1])) # <<>>
    /\ Len(normalise(strip(str(row[1])))) >= 5
    /\ ~\E keyword \in HeaderKeywords : Contains(normalise(strip(str(row[1]))), keyword)

Point2(row, r) ==
    [row |-> r, seq |-> normalise(strip(str(row[1]))),
     code |-> normalise(strip(str(row[1]))),
     name |-> IF Len(row) > 1 /\ CellTruthy(row[2]) THEN strip(str(row[2])) ELSE <<>>,
     content |-> IF Len(row) > 2 /\ CellTruthy(row[3]) THEN strip(str(row[3])) ELSE <<>>]

\* Lines 236-259: layout 3 reads the code in the 6th cell.
Keeps3(row) ==
    /\ Len(row) > 5
    /\ ~row[6].isNone
    /\ strip(str(row[6])) # <<>>
    /\ Len(normalise(strip(str(row[6])))) >= 5
    /\ Contains(normalise(strip(str(row[6]))), <<"-">>)
    /\ ~\E keyword \in HeaderKeywords : Contains(normalise(strip(str(row[6]))), keyword)

Point3(row, r) ==
    [row |-> r, seq |-> normalise(strip(str(row[6]))),
     code |-> normalise(strip(str(row[6]))),
     name |-> IF Len(row) > 6 /\ CellTruthy(row[7]) THEN strip(str(row[7])) ELSE <<>>,
     content |-> IF Len(row) > 8 /\ CellTruthy(row[9]) THEN strip(str(row[9])) ELSE <<>>]

\* knowledge_points.append(point) for the rows r..Len(ws) that are kept.
RECURSIVE Appended(_, _, _)
Appended(ws, layout, r) ==
    IF r > Len(ws) THEN <<>>
    ELSE LET row == RowValues(ws, r)
             here == CASE layout = "format1" ->
                            IF row[1].isNone THEN <<>> ELSE <<Point1(row, r)>>
                      [] layout = "format2" ->
                            IF Keeps2(row) THEN <<Point2(row, r)>> ELSE <<>>
                      [] OTHER ->
                            IF Keeps3(row) THEN <<Point3(row, r)>> ELSE <<>>
         IN  here \o Appended(ws, layout, r + 1)

\* Lines 193-207 read row[1], row[2] and row[3] of every row whose first
\* cell is not None: IndexError on a sheet of fewer than 4 columns.
IndexError(ws) ==
    /\ detect_file_format(ws) = "format1"
    /\ max_column(ws) < 4
    /\ \E r \in 1..Len(ws) : ~RowValues(ws, r)[1].isNone

\* Variant of the three append calls that puts each point in front.
read_prepending(ws) ==
    LET layout == detect_file_format(ws)
        points == Appended(ws, layout, IF layout = "format1" THEN 1 ELSE 2)
    IN  IF IndexError(ws)
        THEN [raised |-> TRUE, points |-> <<>>]
        ELSE [raised |-> FALSE,
              points |-> [i \in 1..Len(points) |-> points[Len(points) + 1 - i]]]

\* Lines 173-267: the list returned, or the exception raised.
read_knowledge_points(ws) ==
    LET layout == detect_file_format(ws)
    IN  IF IndexError(ws)
        THEN [raised |-> TRUE, points |-> <<>>]
        ELSE [raised |-> FALSE,
              points |-> Appended(ws, layout, IF layout = "format1" THEN 1 ELSE 2)]

(***************************************************************************)
(* Documents: sheets of up to MaxRows rows taken from header rows of the   *)
(* layouts 2 and 3, rows that look like them, data rows of the three       *)
(* layouts with codes that are well formed, written with em dashes, padded *)
(* with a blank, too short, without a dash or holding a keyword, and a     *)
(* blank row.                                                              *)
(***************************************************************************)
Code1 == <<"A", "-", "B", "-", "A", "-", "1">>

Code1Em == <<"A", "EM", "B", "EM", "A", "EM", "1">>

Code2Padded == <<" ", "A", "-", "B", "-", "A", "-", "2">>

ShortCode == <<"A", "-", "1">>

KeywordCode == <<"xu", "hao", "-", "0", "1">>

NoDashCode == <<"A", "B", "A", "0", "1">>

HeaderRows ==
    { <<Text(<<"jian", "ding", "dian">>), Text(<<"n">>), Text(<<"c">>)>>,
      <<Text(RegionMarker), NoneCell, NoneCell, NoneCell, NoneCell, Text(SequenceNumber),
        Text(<<"n">>), NoneCell, Text(<<"c">>)>>,
      <<Text(RegionMarker), NoneCell, NoneCell, NoneCell, NoneCell, Text(<<"x">>)>>,
      <<Text(RegionMarker), Text(SequenceNumber)>> }

DataRows1 ==
    { <<Text(<<"1">>), Text(Code1), Text(<<"n">>), Text(<<"x">>)>>,
      <<Text(<<"2">>), NoneCell, Text(<<"n">>), Text(<<"x">>)>>,
      <<Text(<<"3">>), Text(Code2Padded), Text(<<"n">>), Text(<<"x">>)>> }

DataRows2 ==
    { <<Text(c), Text(<<"n">>), Text(<<"x">>)>> :
        c \in {Code1, Code1Em, Code2Padded, ShortCode, KeywordCode} }

DataRows3 ==
    { <<NoneCell, NoneCell, NoneCell, NoneCell, NoneCell, Text(c), Text(<<"n">>), NoneCell,
        Text(<<"x">>)>> : c \in {Code1, NoDashCode} }

SampleRows == HeaderRows \cup DataRows1 \cup DataRows2 \cup DataRows3 \cup {<<NoneCell>>}

Documents == UNION { [1..n -> SampleRows] : n \in 1..MaxRows }

\* The variables of process_file, of the session and of the batch run.
programVars ==
    <<fs, input_filepath, xlsx, level, run, batch, fileIdx, prevRun, runCalled,
      oraclesOk, pf, knowledge_points, existing_codes, new_knowledge_points,
      idx, pc, iteration, questions, evaluation, result,
      genCalls, evalCalls, fixCalls, lastCall, callArg, callRound, lastBatch,
      onlyGood, onlyOutage, honored, evalErrored, servedCodes>>

\* No file is being processed.
ProgramIdle ==
    /\ input_filepath = <<>>
    /\ xlsx = <<>>
    /\ fs = {}
    /\ pf = "done"
    /\ NoBatch
    /\ InitLocals

InitReader ==
    /\ workbook \in Documents
    /\ file_format = "none"
    /\ second_format = "none"
    /\ emitted = [raised |-> FALSE, points |-> <<>>]
    /\ rd = "start"
    /\ SerializerIdle
    /\ ProgramIdle

\* A call of detect_file_format on the document.
Detect ==
    /\ rd = "start"
    /\ file_format' = detect_file_format(workbook)
    /\ rd' = "detected"
    /\ UNCHANGED <<workbook, second_format, emitted, serializerVars, programVars>>

\* A second call on the same document.
DetectAgain ==
    /\ rd = "detected"
    /\ second_format' = detect_file_format(workbook)
    /\ rd' = "detected_twice"
    /\ UNCHANGED <<workbook, file_format, emitted, serializerVars, programVars>>

\* Line 1112: the call of read_knowledge_points by process_file.
ReadKnowledgePoints ==
    /\ rd = "detected_twice"
    /\ emitted' = read_knowledge_points(workbook)
    /\ rd' = "read"
    /\ UNCHANGED <<workbook, file_format, second_format, serializerVars, programVars>>

NextReader ==
    \/ Detect
    \/ DetectAgain
    \/ ReadKnowledgePoints

SpecReader == InitReader /\ [][NextReader]_vars

(***************************************************************************)
(* C21: in each of the three layouts read_knowledge_points emits no point  *)
(* whose code is empty or shorter than 5 characters and no point whose     *)
(* code contains a header keyword: the rows that fail are dropped.         *)
(***************************************************************************)
C21_EmittedCodesAreValid ==
    rd = "read"
        => \A i \in 1..Len(emitted.points) :
              /\ Len(emitted.points[i].code) >= 5
              /\ ~Contains(emitted.points[i].code, <<"ti", "mu", "xu", "hao">>)
              /\ ~Contains(emitted.points[i].code, <<"jian", "ding", "dian">>)
              /\ ~Contains(emitted.points[i].code, <<"xu", "hao">>)

(***************************************************************************)
(* C22: for a document whose code cells are pairwise distinct (over the     *)
(* rows that are not blank, a missing cell being the empty value) the      *)
(* emitted points are in row order and no two of them have the same code.  *)
(***************************************************************************)
C22_DistinctCellsGiveDistinctCodes ==
    LET column == CASE file_format = "format1" -> 2
                    [] file_format = "format2" -> 1
                    [] OTHER -> 6
        first == IF file_format = "format1" THEN 1 ELSE 2
        rows == { r \in first..Len(workbook) :
                    \E c \in 1..Len(workbook[r]) : ~workbook[r][c].isNone }
        raw(r) == IF column <= Len(workbook[r]) /\ ~workbook[r][column].isNone
                  THEN workbook[r][column].text ELSE <<>>
        points == emitted.points
    IN  (rd = "read" /\ \A r1, r2 \in rows : r1 # r2 => raw(r1) # raw(r2))
            => \A i, j \in 1..Len(points) :
                  i < j => (points[i].row < points[j].row /\ points[i].code # points[j].code)

(***************************************************************************)
(* C22, amended: when the values of the code cells after trimming and dash *)
(* normalisation (the empty value for a row without a code cell) are       *)
(* pairwise distinct over the rows that are not blank, the emitted points  *)
(* are in row order, each carries the value of its row's cell up to        *)
(* surrounding blanks, no two have the same code, and the points handed to *)
(* the sessions have pairwise different codes whatever codes are done.     *)
(***************************************************************************)
C22_DistinctCodesAreEmittedOnceInOrder ==
    LET column == CASE file_format = "format1" -> 2
                    [] file_format = "format2" -> 1
                    [] OTHER -> 6
        first == IF file_format = "format1" THEN 1 ELSE 2
        rows == { r \in first..Len(workbook) :
                    \E c \in 1..Len(workbook[r]) : ~workbook[r][c].isNone }
        raw(r) == IF column <= Len(workbook[r]) /\ ~workbook[r][column].isNone
                  THEN workbook[r][column].text ELSE <<>>
        dashed(t) == [k \in 1..Len(t) |-> IF t[k] \in {"EM", "FW"} THEN "-" ELSE t[k]]
        value(r) == dashed(strip(raw(r)))
        points == emitted.points
        codes == { points[i].code : i \in 1..Len(points) }
    IN  (rd = "read" /\ \A r1, r2 \in rows : r1 # r2 => value(r1) # value(r2))
            => /\ \A i, j \in 1..Len(points) :
                    i < j => /\ points[i].row < points[j].row
                             /\ points[i].code # points[j].code
               /\ \A i \in 1..Len(points) : strip(points[i].code) = value(points[i].row)
               /\ \A existing \in SUBSET codes :
                    LET todo == FilterNew(points, existing)
                    IN  \A i, j \in 1..Len(todo) : i < j => todo[i].code # todo[j].code

C22_Witness ==
    /\ rd = "read"
    /\ file_format = "format2"
    /\ Len(workbook) = 3
    /\ workbook[2][1].text = <<"A", "EM", "B", "EM", "A", "EM", "1">>
    /\ workbook[3][1].text = <<" ", "A", "-", "B", "-", "A", "-", "2">>
    /\ Len(emitted.points) = 2
    /\ emitted.points[1].code = <<"A", "-", "B", "-", "A", "-", "1">>
    /\ emitted.points[2].code = <<"A", "-", "B", "-", "A", "-", "2">>

\* The layout the ordered decision table gives for the document in
\* `workbook`, read cell by cell.
C23_DecisionTable ==
    LET CellHas(r, c, k) ==
            /\ r <= Len(workbook)
            /\ c <= Len(workbook[r])
            /\ ~workbook[r][c].isNone
            /\ \E i \in 1..Len(workbook[r][c].text) :
                  /\ i + Len(k) - 1 <= Len(workbook[r][c].text)
                  /\ \A d \in 1..Len(k) : workbook[r][c].text[i + d - 1] = k[d]
        RowHas(r, k) == \E c \in 1..9 : CellHas(r, c, k)
        headers == { <<"ti", "mu", "xu", "hao">>, <<"jian", "ding", "dian">>, <<"zi", "liao">> }
        table ==
            IF /\ RowHas(1, <<"jian", "ding", "fan", "wei">>)
               /\ CellHas(1, 6, <<"ti", "mu", "xu", "hao">>)
            THEN "format3"
            ELSE IF \E k \in headers : RowHas(1, k) THEN "format2"
            ELSE IF \E k \in headers : RowHas(2, k) THEN "format2"
            ELSE "format1"
    IN  table

(***************************************************************************)
(* C23: detect_file_format is total and deterministic and equals the       *)
(* ordered decision table: format3 when row 1 holds the region marker and  *)
(* its 6th cell holds the question-sequence-number keyword; else format2   *)
(* when row 1, or failing that row 2, holds one of the three header        *)
(* keywords; else format1.  A second call gives the same layout, and the   *)
(* document is left unchanged.                                             *)
(***************************************************************************)
C23_DetectionFollowsDecisionTable ==
    /\ [](rd # "start" => file_format = C23_DecisionTable)
    /\ [](rd \in {"detected_twice", "read"} => second_format = file_format)
    /\ [][workbook' = workbook]_vars

C23_Witness ==
    /\ rd = "detected_twice"
    /\ file_format = "format3"
    /\ second_format = "format3"
    /\ Len(workbook) = 2
    /\ Len(workbook[1]) = 9
    /\ Len(workbook[2]) = 9
    /\ workbook[1][6].text = <<"ti", "mu", "xu", "hao">>
    /\ workbook[2][6].text = <<"A", "-", "B", "-", "A", "-", "1">>

(***************************************************************************)
(* The serializers: save_questions_to_xls (lines 914-965),                 *)
(* save_questions_to_docx (lines 967-1023) and parse_docx of               *)
(* docx_to_xls.py (lines 34-101).  A question is a Python dict: a function *)
(* from the keys it has to texts.  The keys 鉴定点编号, 题目类型, 题干,     *)
(* 选项A..选项E and 答案 are written "code", "type", "stem", "A".."E" and  *)
(* "answer"; the kinds 单选, 判断, 多选 are written in pinyin.             *)
(***************************************************************************)
MaxQuestions == 3

\* q.get(key, "")
get(q, key) == IF key \in DOMAIN q THEN q[key] ELSE <<>>

\* Lines 945-946 and 985, 991: type_code_map.get(q.get("题目类型", ""), "B")
type_code(q) ==
    CASE get(q, "type") = <<"dan", "xuan">> -> "B"
      [] get(q, "type") = <<"pan", "duan">> -> "C"
      [] get(q, "type") = <<"duo", "xuan">> -> "D"
      [] OTHER -> "B"

OptionKeys == <<"A", "B", "C", "D", "E">>

\* Variant of ws.write that trims the text it stores.
TextCellStripped(value) ==
    IF strip(value) = <<>> THEN [kind |-> "blank", value |-> <<>>]
    ELSE [kind |-> "text", value |-> strip(value)]

\* ws.write(row, col, value): xlwt stores a text, a blank for the empty
\* text, a number for an int.
TextCell(value) ==
    IF value = <<>> THEN [kind |-> "blank", value |-> <<>>]
    ELSE [kind |-> "text", value |-> value]

NumberCell(digit) == [kind |-> "number", value |-> <<digit>>]

\* Lines 934-936: the header labels, one token per label.
headers ==
    <<"JianDingDianDaiMa", "TiMuLeiXingDaiMa", "ShiTi", "XuanXiangA", "XuanXiangB",
      "XuanXiangC", "XuanXiangD", "XuanXiangE", "DaAn", "NanDuDaiMa", "YiZhiXingDaiMa">>

\* Lines 948-962: the row of one question.
data(q) ==
    <<TextCell(get(q, "code")), TextCell(<<type_code(q)>>), TextCell(get(q, "stem")),
      TextCell(get(q, "A")), TextCell(get(q, "B")), TextCell(get(q, "C")),
      TextCell(get(q, "D")), TextCell(get(q, "E")), TextCell(get(q, "answer")),
      NumberCell("3"), NumberCell("5")>>

\* Variant of lines 948-962 that leaves the type code out of the row.
save_xls_without_type(qs) ==
    <<[c \in 1..Len(headers) |-> TextCell(<<headers[c]>>)]>>
        \o [i \in 1..Len(qs) |->
              <<data(qs[i])[1]>> \o SubSeq(data(qs[i]), 3, 11) \o <<TextCell(<<>>)>>]

\* Lines 914-965: the sheet, row 0 first.
save_questions_to_xls(qs) ==
    <<[c \in 1..Len(headers) |-> TextCell(<<headers[c]>>)]>>
        \o [i \in 1..Len(qs) |-> data(qs[i])]

\* Lines 994, 999, 1008, 1013: the texts of the paragraphs of one question.
MetaLine(q) == get(q, "code") \o <<" ", " ", type_code(q), " ", " ", "3", " ", " ", "5">>

StemLine(q) == <<"{", "A", "}">> \o get(q, "stem")

AnswerLine(q) == <<"{", "B", "}">> \o get(q, "answer")

\* Lines 1003-1010: one paragraph per non-empty option of a choice question.
RECURSIVE OptionLines(_, _)
OptionLines(q, k) ==
    IF k > Len(OptionKeys) \/ type_code(q) \notin {"B", "D"} THEN <<>>
    ELSE (IF get(q, OptionKeys[k]) # <<>>
          THEN << <<"(", OptionKeys[k], ")">> \o get(q, OptionKeys[k]) >>
          ELSE <<>>) \o OptionLines(q, k + 1)

\* Lines 983-1019: the paragraphs of the document, an empty one between
\* two questions.
RECURSIVE save_questions_to_docx(_)
save_questions_to_docx(qs) ==
    IF qs = <<>> THEN <<>>
    ELSE <<MetaLine(Head(qs)), StemLine(Head(qs))>> \o OptionLines(Head(qs), 1)
            \o <<AnswerLine(Head(qs))>>
            \o (IF Len(qs) > 1 THEN << <<>> >> ELSE <<>>)
            \o save_questions_to_docx(Tail(qs))

(***************************************************************************)
(* docx_to_xls.py, parse_docx.  "(" and ")" stand for the full-width       *)
(* brackets of the option lines.                                           *)
(***************************************************************************)
UpperCase == {"A", "B", "C", "D", "E", "T", "F"}

\* text.split(): the maximal runs of characters that are not blanks.
RECURSIVE split(_)
split(text) ==
    LET t == lstrip(text)
        n == IF \E i \in 1..Len(t) : t[i] = " "
             THEN (CHOOSE i \in 1..Len(t) :
                      t[i] = " " /\ \A j \in 1..(i - 1) : t[j] # " ") - 1
             ELSE Len(t)
    IN  IF t = <<>> THEN <<>>
        ELSE <<SubSeq(t, 1, n)>> \o split(SubSeq(t, n + 1, Len(t)))

\* [A-Z]-[A-Z]-[A-Z]-\d+ matches the whole of `code`.
MatchesCodePattern(code) ==
    /\ Len(code) >= 7
    /\ code[1] \in UpperCase /\ code[2] = "-"
    /\ code[3] \in UpperCase /\ code[4] = "-"
    /\ code[5] \in UpperCase /\ code[6] = "-"
    /\ isdigit(SubSeq(code, 7, Len(code)))

\* Line 54: the four groups are free of blanks and are separated by runs
\* of blanks, so the pattern matches the stripped text exactly when the
\* text splits into four fields of the four shapes.
meta_match(text) ==
    /\ Len(split(text)) = 4
    /\ MatchesCodePattern(split(text)[1])
    /\ split(text)[2] \in {<<"B">>, <<"C">>, <<"D">>}
    /\ isdigit(split(text)[3])
    /\ isdigit(split(text)[4])

\* Lines 78, 92: ^\{A\}(.+)$ and ^\{B\}(.+)$
tag_match(text, tag) == Len(text) > 3 /\ SubSeq(text, 1, 3) = <<"{", tag, "}">>

\* Line 84: ^（([A-E])）(.+)$
option_match(text) ==
    /\ Len(text) > 3
    /\ text[1] = "(" /\ text[2] \in {"A", "B", "C", "D", "E"} /\ text[3] = ")"

\* current_question = None
NoQuestion == [none |-> TRUE]

\* Lines 61-73: the dict created for a metadata line.
NewQuestion(text) ==
    [none |-> FALSE, code |-> split(text)[1], type |-> split(text)[2],
     difficulty |-> split(text)[3], consistency |-> split(text)[4],
     stem |-> <<>>, A |-> <<>>, B |-> <<>>, C |-> <<>>, D |-> <<>>, E |-> <<>>,
     answer |-> <<>>]

\* Lines 47-99: the loop over the paragraphs from the k-th on, with the
\* list built so far and the question being read.
RECURSIVE ParseFrom(_, _, _, _)
ParseFrom(paragraphs, k, list, current_question) ==
    IF k > Len(paragraphs)
    THEN (IF current_question.none THEN list ELSE Append(list, current_question))
    ELSE LET text == strip(paragraphs[k])
         IN  IF text = <<>>
               THEN ParseFrom(paragraphs, k + 1, list, current_question)
             ELSE IF meta_match(text)
               THEN ParseFrom(paragraphs, k + 1,
                              IF current_question.none THEN list
                              ELSE Append(list, current_question),
                              NewQuestion(text))
             ELSE IF tag_match(text, "A") /\ ~current_question.none
               THEN ParseFrom(paragraphs, k + 1, list,
                              [current_question EXCEPT !.stem = SubSeq(text, 4, Len(text))])
             ELSE IF option_match(text) /\ ~current_question.none
               THEN ParseFrom(paragraphs, k + 1, list,
                              [current_question EXCEPT ![text[2]] = SubSeq(text, 4, Len(text))])
             ELSE IF tag_match(text, "B") /\ ~current_question.none
               THEN ParseFrom(paragraphs, k + 1, list,
                              [current_question EXCEPT !.answer = SubSeq(text, 4, Len(text))])
             ELSE ParseFrom(paragraphs, k + 1, list, current_question)

\* Lines 34-101.
parse_docx(paragraphs) == ParseFrom(paragraphs, 1, <<>>, NoQuestion)

(***************************************************************************)
(* Batches: up to MaxQuestions questions of the three kinds, one of them   *)
(* with a stem that begins with a blank, all stamped with the code of one  *)
(* knowledge point: a code of the form A-B-A-1 or a code without dashes,   *)
(* which layout 2 of the reader accepts as well.                           *)
(***************************************************************************)
SampleQuestions(code) ==
    { [code |-> code, type |-> <<"dan", "xuan">>, stem |-> <<"s", "_">>,
       A |-> <<"a">>, B |-> <<"b">>, C |-> <<"c">>, D |-> <<"d">>, answer |-> <<"A">>],
      [code |-> code, type |-> <<"dan", "xuan">>, stem |-> <<" ", "s", "_">>,
       A |-> <<"a">>, B |-> <<"b">>, C |-> <<"c">>, D |-> <<"d">>, answer |-> <<"B">>],
      [code |-> code, type |-> <<"pan", "duan">>, stem |-> <<"s">>, answer |-> <<"T">>],
      [code |-> code, type |-> <<"duo", "xuan">>, stem |-> <<"s", "_">>,
       A |-> <<"a">>, B |-> <<"b">>, C |-> <<"c">>, D |-> <<"d">>, E |-> <<"e">>,
       answer |-> <<"A", "C">>] }

Batches ==
    UNION { [1..n -> SampleQuestions(code)] :
              n \in 1..MaxQuestions, code \in {Code1, NoDashCode} }

InitSerializer ==
    /\ written \in Batches
    /\ xls = <<>>
    /\ docx = <<>>
    /\ parsed = <<>>
    /\ sv = "start"
    /\ ReaderIdle
    /\ ProgramIdle

\* Line 1173: process_file saves the batch as a sheet.
SaveQuestionsToXls ==
    /\ sv = "start"
    /\ xls' = save_questions_to_xls(written)
    /\ sv' = "xls"
    /\ UNCHANGED <<written, docx, parsed, readerVars, programVars>>

\* Line 1178: process_file saves the batch as a document.
SaveQuestionsToDocx ==
    /\ sv = "xls"
    /\ docx' = save_questions_to_docx(written)
    /\ sv' = "docx"
    /\ UNCHANGED <<written, xls, parsed, readerVars, programVars>>

\* docx_to_xls.py reads the document back.
ParseDocx ==
    /\ sv = "docx"
    /\ parsed' = parse_docx(docx)
    /\ sv' = "parsed"
    /\ UNCHANGED <<written, xls, docx, readerVars, programVars>>

NextSerializer ==
    \/ SaveQuestionsToXls
    \/ SaveQuestionsToDocx
    \/ ParseDocx

SpecSerializer == InitSerializer /\ [][NextSerializer]_vars

(***************************************************************************)
(* C24: save_questions_to_xls renders one header row followed by one row   *)
(* per question, in order, of 11 columns: code, type code, stem, options   *)
(* A to E, answer, 3, 5.  The type code is B for 单选, C for 判断, D for    *)
(* 多选; every field of the question is in exactly one cell, and the       *)
(* options beyond the question's arity are empty.                          *)
(***************************************************************************)
C24_SheetHasOneRowPerQuestion ==
    sv # "start"
        => /\ Len(xls) = Len(written) + 1
           /\ \A r \in 1..Len(xls) : Len(xls[r]) = 11
           /\ \A c \in 1..11 : xls[1][c].kind = "text"
           /\ \A i \in 1..Len(written) :
                LET q == written[i]
                    row == xls[i + 1]
                IN  /\ row[1] = [kind |-> "text", value |-> q.code]
                    /\ row[2].kind = "text"
                    /\ q.type = <<"dan", "xuan">> => row[2].value = <<"B">>
                    /\ q.type = <<"pan", "duan">> => row[2].value = <<"C">>
                    /\ q.type = <<"duo", "xuan">> => row[2].value = <<"D">>
                    /\ row[3] = [kind |-> "text", value |-> q.stem]
                    /\ \A k \in 1..5 :
                          IF <<"A", "B", "C", "D", "E">>[k] \in DOMAIN q
                          THEN row[3 + k] =
                                 [kind |-> "text", value |-> q[<<"A", "B", "C", "D", "E">>[k]]]
                          ELSE row[3 + k].kind = "blank"
                    /\ row[9] = [kind |-> "text", value |-> q.answer]
                    /\ row[10] = [kind |-> "number", value |-> <<"3">>]
                    /\ row[11] = [kind |-> "number", value |-> <<"5">>]

C24_Witness ==
    /\ sv = "xls"
    /\ Len(written) = 3
    /\ written[1].type = <<"dan", "xuan">>
    /\ written[2].type = <<"pan", "duan">>
    /\ written[3].type = <<"duo", "xuan">>
    /\ Len(xls) = 4
    /\ xls[2][8].kind = "blank"
    /\ xls[3][4].kind = "blank"
    /\ xls[4][8].value = <<"e">>

C27_ParseDocxReadsBackEveryQuestion ==
    LET read(cell) == IF cell.kind = "blank" THEN <<>> ELSE cell.value
        accepted(code) == Keeps2(<<Text(code)>>) /\ Point2(<<Text(code)>>, 2).code = code
    IN  (sv = "parsed" /\ \A i \in 1..Len(written) : accepted(written[i].code))
            => /\ Len(parsed) = Len(written)
               /\ \A i \in 1..Len(parsed) :
                     /\ parsed[i].code = read(xls[i + 1][1])
                     /\ parsed[i].type = read(xls[i + 1][2])
                     /\ parsed[i].stem = read(xls[i + 1][3])
                     /\ parsed[i].A = read(xls[i + 1][4])
                     /\ parsed[i].B = read(xls[i + 1][5])
                     /\ parsed[i].C = read(xls[i + 1][6])
                     /\ parsed[i].D = read(xls[i + 1][7])
                     /\ parsed[i].E = read(xls[i + 1][8])
                     /\ parsed[i].answer = read(xls[i + 1][9])

====
